---- MODULE Spec2Model ----
(***************************************************************************)
(* SatelliteVision: the AOI drawing component (MapAOISelector) and the     *)
(* analysis orchestration of VisualizationSection.                         *)
(*                                                                         *)
(* Two specifications:                                                     *)
(*   Spec      the application: VisualizationSection hosting the selector  *)
(*             (it is mounted exactly while activeTab = "aoi"), the         *)
(*             requests in flight and their resolutions.                    *)
(*   SpecDraw  the MapAOISelector component driven on its own: its          *)
(*             onAOISelected prop is a callback of stable identity that     *)
(*             only receives the events.                                    *)
(*                                                                         *)
(* Nullable values (T | null in the source) are sequences of length <= 1:  *)
(* NULL is <<>>, a present value x is <<x>>.                                *)
(***************************************************************************)
EXTENDS Integers, Sequences, FiniteSets, TLC

\* ------------------------------------------------------------- bounds
\* Number of requests that may be issued in one behaviour.
MaxRequests == 2
\* The pointer positions: a grid of NumLat x NumLng points.
NumLat == 2
NumLng == 2

\* ------------------------------------------------------------- values
NULL == <<>>
Some(x) == <<x>>
Val(o) == o[1]

\* Coordinates are integers in units of 0.01 degree, inside DATA_BOUNDS.
BaseLat == 1850
BaseLng == 7380
GridStep == 2
Lats == {BaseLat + GridStep * i : i \in 0..(NumLat - 1)}
Lngs == {BaseLng + GridStep * i : i \in 0..(NumLng - 1)}
LatLng == [lat : Lats, lng : Lngs]

Min(a, b) == IF a <= b THEN a ELSE b
Max(a, b) == IF a >= b THEN a ELSE b
Abs(a) == IF a >= 0 THEN a ELSE 0 - a

\* Faulty variant: the first corner is taken as south-west, the second as
\* north-east, without ordering them.
latLngBounds_CornerOrder(a, b) ==
    [west  |-> a.lng, south |-> a.lat, east  |-> b.lng, north |-> b.lat]

\* L.latLngBounds(a, b): the smallest bounds holding both corners.
latLngBounds(a, b) ==
    [west  |-> Min(a.lng, b.lng), south |-> Min(a.lat, b.lat),
     east  |-> Max(a.lng, b.lng), north |-> Max(a.lat, b.lat)]

\* The tabs, the first one is the initial one.
Tabs == {"aoi", "imagery", "detection"}

\* What the endpoint (or the network) may answer to one request.
\*   ok            2xx, the body parses (an AnalysisResult)
\*   okUnparseable 2xx, response.json() rejects
\*   transport     fetch rejects
\*   httpError     non-2xx, with one of the bodies of ErrorBodies
ErrorBodies == {"detailString", "detailEmpty", "noDetail", "unparseable"}
Outcomes ==
    {[kind |-> "ok", body |-> "result"],
     [kind |-> "okUnparseable", body |-> "unparseable"],
     [kind |-> "transport", body |-> "none"]}
    \cup {[kind |-> "httpError", body |-> b] : b \in ErrorBodies}

\* The messages an Error can carry.
DetailMsg == "model unavailable"
FallbackMsg == "An unknown API error occurred."
ParseMsg == "Unexpected token < in JSON at position 0"
TransportMsg == "Failed to fetch"

VARIABLES
    \* VisualizationSection (useState)
    activeTab, isLoading, analysisResult, error,
    \* the number of requests issued, those unresolved (by number), and the
    \* fetch calls of the last handler (their payloads)
    issued, inFlight, fetched,
    \* React: a state change of VisualizationSection not yet rendered
    renderPending,
    \* MapAOISelector: mounted, its state, its refs and its map
    mounted, areaKm2, rectLayer, startPoint, isDrawing, dragging,
    \* the AOISelected events the last handler emitted, that handler (with the
    \* draw state it started from), and the AOISelected(bounds) events handled
    emitted, last, boundsHandled,
    \* the latest AOISelected event of the selector's event stream
    lastEvent

sectionVars == <<activeTab, isLoading, analysisResult, error, issued, inFlight, fetched>>
selectorVars == <<areaKm2, rectLayer, startPoint, isDrawing, dragging>>
vars == <<activeTab, isLoading, analysisResult, error, issued, inFlight, fetched,
          renderPending, mounted, areaKm2, rectLayer, startPoint, isDrawing,
          dragging, emitted, last, boundsHandled, lastEvent>>

\* ------------------------------------------------- area (finishDrawing)
KmPerDegree == 111

\* Math.cos(centerLat * Math.PI / 180) in thousandths, by the series
\* 1 - x^2/2 + x^4/24; lat2 is north + south, twice the centre latitude.
Cos1000(lat2) ==
    LET xMrad == (lat2 * 8727) \div 100000
        x2 == xMrad * xMrad
    IN  1000 - (x2 \div 2000) + (((x2 \div 1000) * (x2 \div 1000)) \div 24000)

\* Number((dLatKm * dLngKm).toFixed(2)), in hundredths of a square kilometre.
Area(b) ==
    LET dLat == Abs(b.north - b.south)
        dLng == Abs(b.east - b.west)
        raw == dLat * KmPerDegree * dLng * KmPerDegree * Cos1000(b.north + b.south)
    IN  (raw + 50000) \div 100000

\* ------------------------------------------------- VisualizationSection
\* handleAOISelected up to its await: the state updates and the fetch.
handleAOISelected(bounds) ==
    IF bounds # NULL
    THEN /\ isLoading' = TRUE
         /\ analysisResult' = NULL
         /\ error' = NULL
         /\ activeTab' = "imagery"
         /\ fetched' = <<Val(bounds)>>
         /\ issued' = issued + 1
         /\ inFlight' = inFlight \cup {issued + 1}
    ELSE /\ analysisResult' = NULL
         /\ error' = NULL
         /\ fetched' = <<>>
         /\ UNCHANGED <<isLoading, activeTab, issued, inFlight>>

\* The message of the error thrown for a non-2xx response, or by
\* response.json(), or by fetch.
ErrorMessage(o) ==
    CASE o.kind = "transport" -> TransportMsg
      [] o.kind = "okUnparseable" -> ParseMsg
      [] o.kind = "httpError" /\ o.body = "unparseable" -> ParseMsg
      [] o.kind = "httpError" /\ o.body = "detailString" -> DetailMsg
      [] o.kind = "httpError" /\ o.body \in {"detailEmpty", "noDetail"} -> FallbackMsg

\* Faulty variant: a failed request is sent again (an automatic retry).
resolveRequest_Retry(id, o) ==
    /\ IF o.kind = "ok"
       THEN /\ analysisResult' = Some(id)
            /\ isLoading' = FALSE
            /\ inFlight' = inFlight \ {id}
            /\ UNCHANGED <<error, issued>>
       ELSE /\ error' = Some(ErrorMessage(o))
            /\ isLoading' = TRUE
            /\ issued' = issued + 1
            /\ inFlight' = (inFlight \ {id}) \cup {issued + 1}
            /\ UNCHANGED analysisResult
    /\ fetched' = <<>>
    /\ UNCHANGED activeTab

\* Faulty variant: the switch to the Imagery tab is made when the response arrives.
resolveRequest_SwitchTab(id, o) ==
    /\ IF o.kind = "ok"
       THEN /\ analysisResult' = Some(id)
            /\ UNCHANGED error
       ELSE /\ error' = Some(ErrorMessage(o))
            /\ UNCHANGED analysisResult
    /\ isLoading' = FALSE
    /\ inFlight' = inFlight \ {id}
    /\ fetched' = <<>>
    /\ activeTab' = "imagery"
    /\ UNCHANGED issued

\* Faulty variant: no finally, the loading flag is reset on success only.
resolveRequest_NoFinally(id, o) ==
    /\ IF o.kind = "ok"
       THEN /\ analysisResult' = Some(id)
            /\ isLoading' = FALSE
            /\ UNCHANGED error
       ELSE /\ error' = Some(ErrorMessage(o))
            /\ UNCHANGED <<analysisResult, isLoading>>
    /\ inFlight' = inFlight \ {id}
    /\ fetched' = <<>>
    /\ UNCHANGED <<activeTab, issued>>

\* handleAOISelected after its await, for the request id answered by o:
\* try / catch / finally.
resolveRequest(id, o) ==
    /\ IF o.kind = "ok"
       THEN /\ analysisResult' = Some(id)
            /\ UNCHANGED error
       ELSE /\ error' = Some(ErrorMessage(o))
            /\ UNCHANGED analysisResult
    /\ isLoading' = FALSE
    /\ inFlight' = inFlight \ {id}
    /\ fetched' = <<>>
    /\ UNCHANGED <<activeTab, issued>>

\* React re-renders VisualizationSection when a state setter changed a value.
SectionChanged ==
    <<activeTab', isLoading', analysisResult', error'>>
        # <<activeTab, isLoading, analysisResult, error>>

\* ------------------------------------------------- MapAOISelector
\* Faulty variant: the area of the previous AOI is not reset.
startDrawing_KeepArea(latlng) ==
    /\ isDrawing' = TRUE
    /\ startPoint' = Some(latlng)
    /\ dragging' = FALSE
    /\ rectLayer' = NULL
    /\ UNCHANGED areaKm2
    /\ emitted' = <<NULL>>

startDrawing(latlng) ==
    /\ isDrawing' = TRUE
    /\ startPoint' = Some(latlng)
    /\ dragging' = FALSE
    /\ rectLayer' = NULL
    /\ areaKm2' = NULL
    /\ emitted' = <<NULL>>

\* Faulty variant: the preview follows the pointer whenever a start point is
\* known, drawing or not.
updateDrawing_NotOnlyDrawing(latlng) ==
    IF startPoint = NULL
    THEN UNCHANGED selectorVars /\ emitted' = <<>>
    ELSE /\ rectLayer' =
              IF rectLayer # NULL
              THEN Some([Val(rectLayer) EXCEPT
                            !.bounds = latLngBounds(Val(startPoint), latlng)])
              ELSE Some([bounds |-> latLngBounds(Val(startPoint), latlng),
                         onMap |-> TRUE])
         /\ UNCHANGED <<areaKm2, startPoint, isDrawing, dragging>>
         /\ emitted' = <<>>

\* The rectangle layer updated in place, or created and added to the map.
updateDrawing(latlng) ==
    IF ~isDrawing \/ startPoint = NULL
    THEN UNCHANGED selectorVars /\ emitted' = <<>>
    ELSE /\ rectLayer' =
              IF rectLayer # NULL
              THEN Some([Val(rectLayer) EXCEPT
                            !.bounds = latLngBounds(Val(startPoint), latlng)])
              ELSE Some([bounds |-> latLngBounds(Val(startPoint), latlng),
                         onMap |-> TRUE])
         /\ UNCHANGED <<areaKm2, startPoint, isDrawing, dragging>>
         /\ emitted' = <<>>

\* Faulty variant: the discard path returns before dragging is enabled again.
finishDrawing_DiscardKeepsPanningOff(latlng) ==
    IF ~isDrawing \/ startPoint = NULL
    THEN UNCHANGED selectorVars /\ emitted' = <<>>
    ELSE LET bounds == latLngBounds(Val(startPoint), latlng) IN
         /\ isDrawing' = FALSE
         /\ UNCHANGED startPoint
         /\ IF bounds.west = bounds.east \/ bounds.south = bounds.north
            THEN /\ rectLayer' = NULL
                 /\ UNCHANGED <<areaKm2, dragging>>
                 /\ emitted' = <<>>
            ELSE /\ dragging' = TRUE
                 /\ areaKm2' = Some(Area(bounds))
                 /\ UNCHANGED rectLayer
                 /\ emitted' = <<Some(bounds)>>

\* Faulty variant: the drawing flag is not reset on the commit path.
finishDrawing_CommitStaysDrawing(latlng) ==
    IF ~isDrawing \/ startPoint = NULL
    THEN UNCHANGED selectorVars /\ emitted' = <<>>
    ELSE LET bounds == latLngBounds(Val(startPoint), latlng) IN
         /\ dragging' = TRUE
         /\ UNCHANGED startPoint
         /\ IF bounds.west = bounds.east \/ bounds.south = bounds.north
            THEN /\ isDrawing' = FALSE
                 /\ rectLayer' = NULL
                 /\ UNCHANGED areaKm2
                 /\ emitted' = <<>>
            ELSE /\ UNCHANGED isDrawing
                 /\ areaKm2' = Some(Area(bounds))
                 /\ UNCHANGED rectLayer
                 /\ emitted' = <<Some(bounds)>>

finishDrawing(latlng) ==
    IF ~isDrawing \/ startPoint = NULL
    THEN UNCHANGED selectorVars /\ emitted' = <<>>
    ELSE LET bounds == latLngBounds(Val(startPoint), latlng) IN
         /\ isDrawing' = FALSE
         /\ dragging' = TRUE
         /\ UNCHANGED startPoint
         /\ IF bounds.west = bounds.east \/ bounds.south = bounds.north
            THEN /\ rectLayer' = NULL
                 /\ UNCHANGED areaKm2
                 /\ emitted' = <<>>
            ELSE /\ areaKm2' = Some(Area(bounds))
                 /\ UNCHANGED rectLayer
                 /\ emitted' = <<Some(bounds)>>

\* Faulty variant: the parent is not told that the AOI was cleared.
handleClearAOI_NoEvent ==
    /\ rectLayer' = NULL
    /\ areaKm2' = NULL
    /\ UNCHANGED <<startPoint, isDrawing, dragging>>
    /\ emitted' = <<>>

handleClearAOI ==
    /\ rectLayer' = NULL
    /\ areaKm2' = NULL
    /\ UNCHANGED <<startPoint, isDrawing, dragging>>
    /\ emitted' = <<NULL>>

\* A fresh instance: useState(null), the refs, and the effect's new map.
MountSelector ==
    /\ mounted' = TRUE
    /\ areaKm2' = NULL
    /\ rectLayer' = NULL
    /\ startPoint' = NULL
    /\ isDrawing' = FALSE
    /\ dragging' = TRUE

\* The effect's cleanup on unmount: map.remove(); state and refs are gone.
UnmountSelector ==
    /\ mounted' = FALSE
    /\ areaKm2' = NULL
    /\ rectLayer' = NULL
    /\ startPoint' = NULL
    /\ isDrawing' = FALSE
    /\ dragging' = FALSE

\* The effect depends on [onAOISelected], a new function at every render of
\* VisualizationSection: cleanup (map.remove()) and a new map, with Leaflet's
\* default dragging; the refs keep their values, the layer stays off the map.
RerunEffect ==
    /\ dragging' = TRUE
    /\ rectLayer' = IF rectLayer = NULL THEN NULL
                    ELSE Some([Val(rectLayer) EXCEPT !.onMap = FALSE])
    /\ UNCHANGED <<mounted, areaKm2, startPoint, isDrawing>>

\* The draw state the selector shows: drawing, or a committed area (the
\* badge and the Clear AOI button are rendered while areaKm2 !== null).
DrawState ==
    IF isDrawing THEN "Drawing"
    ELSE IF areaKm2 # NULL THEN "Drawn" ELSE "Idle"

\* Every render of VisualizationSection: renderContent mounts the selector
\* exactly on the AOI tab; a selector that stays mounted gets a new
\* onAOISelected and runs its effect again.
commitRender ==
    IF activeTab = "aoi"
    THEN IF mounted THEN RerunEffect ELSE MountSelector
    ELSE IF mounted THEN UnmountSelector
         ELSE UNCHANGED <<mounted, areaKm2, rectLayer, startPoint, isDrawing, dragging>>

\* onAOISelected?.(event) for each event the handler emitted (at most one):
\* the call is synchronous, inside the handler.
deliver ==
    IF emitted' = <<>>
    THEN /\ UNCHANGED <<activeTab, isLoading, analysisResult, error, issued, inFlight>>
         /\ fetched' = <<>>
         /\ UNCHANGED boundsHandled
    ELSE /\ handleAOISelected(emitted'[1])
         /\ boundsHandled' = boundsHandled + (IF emitted'[1] # NULL THEN 1 ELSE 0)

\* The event stream of onAOISelected: its latest event after a handler named
\* op, a null of startDrawing, a null of handleClearAOI or bounds.
recordEvent(op) ==
    lastEvent' =
        IF emitted' = <<>> THEN lastEvent
        ELSE IF emitted'[1] # NULL THEN "bounds"
        ELSE IF op = "pointerDown" THEN "nullDown" ELSE "nullClear"

\* ------------------------------------------------- Spec: the application
Init ==
    /\ activeTab = "aoi"
    /\ isLoading = FALSE
    /\ analysisResult = NULL
    /\ error = NULL
    /\ issued = 0
    /\ inFlight = {}
    /\ fetched = <<>>
    /\ renderPending = FALSE
    /\ mounted = TRUE
    /\ areaKm2 = NULL
    /\ rectLayer = NULL
    /\ startPoint = NULL
    /\ isDrawing = FALSE
    /\ dragging = TRUE
    /\ emitted = <<>>
    /\ last = [op |-> "init"]
    /\ boundsHandled = 0
    /\ lastEvent = "none"

\* An event is handled only once the previous one is rendered.
Ready == ~renderPending

PointerDown(p) ==
    /\ Ready /\ mounted
    /\ startDrawing(p)
    /\ deliver
    /\ renderPending' = SectionChanged
    /\ UNCHANGED mounted
    /\ last' = [op |-> "pointerDown", p |-> p, from |-> DrawState]
    /\ recordEvent("pointerDown")

PointerMove(p) ==
    /\ Ready /\ mounted
    /\ updateDrawing(p)
    /\ deliver
    /\ renderPending' = SectionChanged
    /\ UNCHANGED mounted
    /\ last' = [op |-> "pointerMove", p |-> p, from |-> DrawState]
    /\ recordEvent("pointerMove")

PointerUp(p) ==
    /\ Ready /\ mounted
    /\ finishDrawing(p)
    /\ emitted' # <<>> => issued < MaxRequests
    /\ deliver
    /\ renderPending' = SectionChanged
    /\ UNCHANGED mounted
    /\ last' = [op |-> "pointerUp", p |-> p, from |-> DrawState]
    /\ recordEvent("pointerUp")

\* Faulty variant: leaving a tab dismisses the error shown on it.
TabClick_DismissesError(t) ==
    /\ Ready
    /\ activeTab' = t
    /\ error' = NULL
    /\ UNCHANGED <<isLoading, analysisResult, issued, inFlight>>
    /\ fetched' = <<>>
    /\ renderPending' = SectionChanged
    /\ UNCHANGED <<mounted, areaKm2, rectLayer, startPoint, isDrawing, dragging>>
    /\ emitted' = <<>>
    /\ last' = [op |-> "tabClick", tab |-> t]
    /\ recordEvent("tabClick")
    /\ UNCHANGED boundsHandled

TabClick(t) ==
    /\ Ready
    /\ activeTab' = t
    /\ UNCHANGED <<isLoading, analysisResult, error, issued, inFlight>>
    /\ fetched' = <<>>
    /\ renderPending' = SectionChanged
    /\ UNCHANGED <<mounted, areaKm2, rectLayer, startPoint, isDrawing, dragging>>
    /\ emitted' = <<>>
    /\ last' = [op |-> "tabClick", tab |-> t]
    /\ recordEvent("tabClick")
    /\ UNCHANGED boundsHandled

Resolve(id, o) ==
    /\ Ready
    /\ id \in inFlight
    /\ resolveRequest(id, o)
    /\ renderPending' = SectionChanged
    /\ UNCHANGED <<mounted, areaKm2, rectLayer, startPoint, isDrawing, dragging>>
    /\ emitted' = <<>>
    /\ last' = [op |-> "resolve", id |-> id, outcome |-> o]
    /\ recordEvent("resolve")
    /\ UNCHANGED boundsHandled

Render ==
    /\ renderPending
    /\ renderPending' = FALSE
    /\ commitRender
    /\ UNCHANGED <<activeTab, isLoading, analysisResult, error, issued, inFlight>>
    /\ fetched' = <<>>
    /\ emitted' = <<>>
    /\ last' = [op |-> "render"]
    /\ recordEvent("render")
    /\ UNCHANGED boundsHandled

Next ==
    \/ \E p \in LatLng : PointerDown(p)
    \/ \E p \in LatLng : PointerMove(p)
    \/ \E p \in LatLng : PointerUp(p)
    \/ \E t \in Tabs : TabClick(t)
    \/ \E id \in inFlight, o \in Outcomes : Resolve(id, o)
    \/ Render

Spec == Init /\ [][Next]_vars

\* ------------------------------------------------- SpecDraw: the selector alone
DrawPointerDown(p) ==
    /\ startDrawing(p)
    /\ last' = [op |-> "pointerDown", p |-> p, from |-> DrawState]
    /\ recordEvent("pointerDown")
    /\ UNCHANGED <<sectionVars, renderPending, mounted, boundsHandled>>

DrawPointerMove(p) ==
    /\ updateDrawing(p)
    /\ last' = [op |-> "pointerMove", p |-> p, from |-> DrawState]
    /\ recordEvent("pointerMove")
    /\ UNCHANGED <<sectionVars, renderPending, mounted, boundsHandled>>

DrawPointerUp(p) ==
    /\ finishDrawing(p)
    /\ last' = [op |-> "pointerUp", p |-> p, from |-> DrawState]
    /\ recordEvent("pointerUp")
    /\ UNCHANGED <<sectionVars, renderPending, mounted, boundsHandled>>

\* The Clear AOI button is rendered while areaKm2 !== null.
DrawClear ==
    /\ areaKm2 # NULL
    /\ handleClearAOI
    /\ last' = [op |-> "clear", from |-> DrawState]
    /\ recordEvent("clear")
    /\ UNCHANGED <<sectionVars, renderPending, mounted, boundsHandled>>

NextDraw ==
    \/ \E p \in LatLng : DrawPointerDown(p)
    \/ \E p \in LatLng : DrawPointerMove(p)
    \/ \E p \in LatLng : DrawPointerUp(p)
    \/ DrawClear

SpecDraw == Init /\ [][NextDraw]_vars

\* ------------------------------------------------- AnalysisState
\* The four variants of the analysis state, as the three useState fields.
StateIdle == ~isLoading /\ error = NULL /\ analysisResult = NULL
StateLoading == isLoading /\ error = NULL /\ analysisResult = NULL
StateError == ~isLoading /\ error # NULL /\ analysisResult = NULL
StateSuccess == ~isLoading /\ error = NULL /\ analysisResult # NULL

\* The last handler emitted AOISelected(null) / AOISelected(bounds).
EmittedNull(e) == e # <<>> /\ e[1] = NULL
EmittedBounds(e) == e # <<>> /\ e[1] # NULL

Degenerate(a, b) == a.lat = b.lat \/ a.lng = b.lng

\* ------------------------------------------------- claims

\* C1: immediately after the orchestrator handles AOISelected(null) the
\* analysis state is Idle (not loading, no error, no result), whatever the
\* prior state was. (As the specification states it; the code violates it.)
C1_NullYieldsIdle == EmittedNull(emitted) => StateIdle

\* C2: handling AOISelected(bounds) clears result and error, puts the state in
\* Loading and issues exactly one request whose payload is those bounds; no
\* other step issues a request (no retry on a resolution, none on
\* AOISelected(null), a tab click or a render); the number of requests issued
\* equals the number of AOISelected(bounds) events handled.
C2_Step ==
    IF EmittedBounds(emitted')
    THEN /\ isLoading' /\ analysisResult' = NULL /\ error' = NULL
         /\ fetched' = <<Val(emitted'[1])>>
         /\ issued' = issued + 1
         /\ inFlight' = inFlight \cup {issued'}
         /\ issued' \notin inFlight
    ELSE /\ fetched' = <<>>
         /\ issued' = issued
         /\ inFlight' \subseteq inFlight

C2_OneRequestPerSelection ==
    [](issued = boundsHandled) /\ [][C2_Step]_vars

\* C2 witness: a second selection handled while the first request is still
\* in flight: two requests issued, both unresolved.
C2_Witness ==
    /\ EmittedBounds(emitted) /\ fetched = <<Val(emitted[1])>>
    /\ issued = 2 /\ inFlight = {1, 2} /\ StateLoading

\* C3: activeTab becomes Imagery in the step that handles AOISelected(bounds);
\* apart from a tab click no other step (AOISelected(null), a resolution, a
\* render) changes activeTab.
C3_Step ==
    IF EmittedBounds(emitted') THEN activeTab' = "imagery"
    ELSE IF last'.op = "tabClick" THEN activeTab' = last'.tab
    ELSE activeTab' = activeTab

C3_AutoSwitchOnlyOnSelection == [][C3_Step]_vars

\* C3 witness: the response arrives after the user left the Imagery tab for
\* Detection, and Detection is still the active tab.
C3_Witness ==
    last.op = "resolve" /\ activeTab = "detection" /\ issued >= 1

\* C4: when a request resolves successfully the analysis state becomes
\* Success{result} carrying that response, whatever the state was at that
\* time. (As the specification states it; the code violates it.)
C4_SuccessYieldsSuccess ==
    (last.op = "resolve" /\ last.outcome.kind = "ok")
        => (StateSuccess /\ analysisResult = Some(last.id))

\* C5: when a request resolves with a non-2xx status the error message is the
\* body's detail string if the body has one, and the generic fallback message
\* in every other case. (As the specification states it; the code violates it.)
C5_DetailOrFallback ==
    (last.op = "resolve" /\ last.outcome.kind = "httpError")
        => error = Some(IF last.outcome.body = "detailString"
                        THEN DetailMsg ELSE FallbackMsg)

\* C6: every failed resolution (non-2xx, transport failure, 2xx with a body
\* that does not parse) leaves the analysis state Error{message}: not Idle,
\* not Loading, not Success. (As the specification states it; the code violates it.)
C6_FailureYieldsError ==
    (last.op = "resolve" /\ last.outcome.kind # "ok") => StateError

\* C7: pointerDown(p) from any draw state (Idle, Drawing or Drawn) moves the
\* selector to Drawing with start = p, removes any preview or committed
\* rectangle, clears the area display, disables panning and emits exactly one
\* AOISelected(null).
C7_PointerDownStartsDraw ==
    last.op = "pointerDown"
        => /\ DrawState = "Drawing"
           /\ startPoint = Some(last.p)
           /\ rectLayer = NULL
           /\ areaKm2 = NULL
           /\ ~dragging
           /\ emitted = <<NULL>>

\* C7 witness: a pointerDown on a committed AOI (Drawn) has started a new draw.
C7_Witness ==
    /\ last.op = "pointerDown" /\ last.from = "Drawn"
    /\ isDrawing /\ areaKm2 = NULL /\ emitted = <<NULL>>

\* C8: pointerUp in Drawing at a point with the latitude or the longitude of
\* the start point returns the selector to Idle, removes the preview, leaves
\* the area display empty, re-enables panning and emits no AOISelected event.
C8_DegenerateDiscarded ==
    (/\ last.op = "pointerUp" /\ last.from = "Drawing"
     /\ startPoint # NULL /\ Degenerate(Val(startPoint), last.p))
        => /\ DrawState = "Idle"
           /\ rectLayer = NULL
           /\ areaKm2 = NULL
           /\ dragging
           /\ emitted = <<>>

\* C8 witness: a draw released on a zero-height or zero-width line (not on the
\* start point itself) was discarded.
C8_Witness ==
    /\ last.op = "pointerUp" /\ last.from = "Drawing"
    /\ startPoint # NULL /\ Degenerate(Val(startPoint), last.p)
    /\ last.p # Val(startPoint)
    /\ ~isDrawing /\ dragging /\ emitted = <<>>

\* C9: pointerUp(p) in Drawing with a non-degenerate (start, p) moves the
\* selector to Drawn with the rectangle spanned by start and p, sets the area
\* display, re-enables panning and emits exactly one AOISelected(bounds) with
\* the edges of that rectangle. (As the specification states it; the code violates it.)
C9_CommitDrawn ==
    (/\ last.op = "pointerUp" /\ last.from = "Drawing"
     /\ startPoint # NULL /\ ~Degenerate(Val(startPoint), last.p))
        => LET b == latLngBounds(Val(startPoint), last.p) IN
           /\ DrawState = "Drawn"
           /\ rectLayer = Some([bounds |-> b, onMap |-> TRUE])
           /\ areaKm2 # NULL
           /\ dragging
           /\ emitted = <<Some(b)>>

\* C10: panning is disabled whenever the draw state is Drawing, and enabled
\* again after every exit from Drawing by pointerUp. (The original statement;
\* the code violates it.)
C10_NoPanningWhileDrawing ==
    /\ (mounted /\ isDrawing) => ~dragging
    /\ (last.op = "pointerUp" /\ last.from = "Drawing") => dragging

\* ------------------------------------------------- renderContent
\* Faulty variant: the error and loading views are not kept off the AOI tab.
renderContent_OnEveryTab ==
    IF error # NULL THEN [view |-> "error", message |-> Val(error)]
    ELSE IF isLoading THEN [view |-> "loading"]
    ELSE CASE activeTab = "aoi" -> [view |-> "selector"]
           [] activeTab = "imagery" -> [view |-> "comparison", result |-> analysisResult]
           [] activeTab = "detection" -> [view |-> "overlay", result |-> analysisResult]

\* What the content card shows. `if (error)` tests a string: every message of
\* ErrorMessage is non-empty, so it is the test error # NULL.
renderContent ==
    IF activeTab # "aoi" /\ error # NULL
    THEN [view |-> "error", message |-> Val(error)]
    ELSE IF activeTab # "aoi" /\ isLoading
    THEN [view |-> "loading"]
    ELSE CASE activeTab = "aoi" -> [view |-> "selector"]
           [] activeTab = "imagery" -> [view |-> "comparison", result |-> analysisResult]
           [] activeTab = "detection" -> [view |-> "overlay", result |-> analysisResult]

\* C11: off the AOI tab an error shows the error view with its message; else
\* off the AOI tab a loading state shows the loading view; else AOI shows the
\* drawing surface, Imagery the comparison view and Detection the overlay
\* view, each fed the result or null. The AOI tab never shows the error or the
\* loading view; Imagery and Detection differ only in the result view.
C11_ViewSelection ==
    /\ activeTab = "aoi" => renderContent.view = "selector"
    /\ \A t \in {"imagery", "detection"} :
         activeTab = t =>
           /\ error # NULL =>
                renderContent = [view |-> "error", message |-> Val(error)]
           /\ (error = NULL /\ isLoading) => renderContent = [view |-> "loading"]
           /\ (error = NULL /\ ~isLoading) =>
                renderContent =
                    [view |-> IF t = "imagery" THEN "comparison" ELSE "overlay",
                     result |-> analysisResult]

\* C11 witness: the AOI tab shows the drawing surface, not the error view,
\* while an error is present.
C11_Witness ==
    /\ activeTab = "aoi" /\ ~renderPending /\ mounted
    /\ error # NULL
    /\ renderContent.view = "selector"

\* C12: a tab click changes only activeTab: the loading flag, the error and
\* the result are unchanged and no request is issued.
C12_Step ==
    last'.op = "tabClick"
        => /\ activeTab' = last'.tab
           /\ UNCHANGED <<isLoading, analysisResult, error, issued, inFlight>>
           /\ fetched' = <<>>

C12_TabClickOnlySwitches == [][C12_Step]_vars

\* C12 witness: after Success the user switched to Detection: the overlay is
\* shown from the stored result and no request was made.
C12_Witness ==
    /\ last.op = "tabClick" /\ last.tab = "detection"
    /\ StateSuccess /\ fetched = <<>> /\ inFlight = {}
    /\ renderContent = [view |-> "overlay", result |-> analysisResult]

\* C13: the analysis state is always exactly one of Idle, Loading,
\* Error{message}, Success{result}: the loading flag, an error and a result
\* are never present two at a time. (As the specification states it; the code
\* violates it.)
C13_OneVariant == StateIdle \/ StateLoading \/ StateError \/ StateSuccess

\* C14: once a pointerUp has committed an AOI (Drawn, with its rectangle and
\* area), the draw state stays Drawn with that rectangle and area until the
\* next pointerDown or clear: the auto-switch to Imagery, tab clicks and
\* request resolutions do not reset it. (As the specification states it; the
\* code violates it.)
C14_Step ==
    (DrawState = "Drawn" /\ last'.op \notin {"pointerDown", "clear"})
        => /\ DrawState' = "Drawn"
           /\ areaKm2' = areaKm2
           /\ rectLayer' = rectLayer

C14_DrawnPersists == [][C14_Step]_vars

\* C15: clear() in Drawn removes the committed rectangle, empties the area
\* display, leaves the selector Idle and emits exactly one AOISelected(null);
\* while the selector is Idle a pointerMove or pointerUp changes nothing and
\* emits nothing (so none has an effect before the next pointerDown).
C15_AfterClear ==
    last.op = "clear"
        => /\ DrawState = "Idle"
           /\ rectLayer = NULL
           /\ areaKm2 = NULL
           /\ emitted = <<NULL>>

C15_IdleStep ==
    (DrawState = "Idle" /\ last'.op \in {"pointerMove", "pointerUp"})
        => (UNCHANGED selectorVars /\ emitted' = <<>>)

C15_ClearResets == []C15_AfterClear /\ [][C15_IdleStep]_vars

\* C15 witness: the Clear AOI button was used on a committed AOI.
C15_Witness ==
    /\ last.op = "clear" /\ last.from = "Drawn"
    /\ DrawState = "Idle" /\ areaKm2 = NULL /\ rectLayer = NULL
    /\ emitted = <<NULL>>

\* C16: pointerMove and pointerUp are effective only in Drawing: in Idle or
\* Drawn they change no draw state, overlay, area display or panning flag and
\* emit nothing; pointerMove in Drawing sets the preview rectangle to the one
\* spanned by start and p, changes nothing else and emits nothing.
C16_Step ==
    /\ (DrawState # "Drawing" /\ last'.op \in {"pointerMove", "pointerUp"})
         => (UNCHANGED selectorVars /\ emitted' = <<>>)
    /\ (DrawState = "Drawing" /\ last'.op = "pointerMove")
         => /\ rectLayer' # NULL
            /\ Val(rectLayer').bounds = latLngBounds(Val(startPoint), last'.p)
            /\ UNCHANGED <<areaKm2, startPoint, isDrawing, dragging>>
            /\ emitted' = <<>>

C16_MoveUpOnlyInDrawing == [][C16_Step]_vars

\* C16 witness: a pointerMove over a committed AOI, at a point that would span
\* another rectangle, left the committed rectangle as it was.
C16_Witness ==
    /\ last.op = "pointerMove" /\ last.from = "Drawn"
    /\ DrawState = "Drawn" /\ rectLayer # NULL /\ startPoint # NULL
    /\ Val(rectLayer).bounds # latLngBounds(Val(startPoint), last.p)
    /\ emitted = <<>>

\* C17: the draw result is symmetric in its corners: a committed draw from
\* start to p emits the bounds, and shows the area, that the draw from p to
\* start yields; the emitted bounds have west < east and south < north; the
\* area shown is the area of the emitted bounds; every non-degenerate release
\* in Drawing emits.
C17_SymmetricDraw ==
    /\ (last.op = "pointerUp" /\ EmittedBounds(emitted))
         => LET swapped == latLngBounds(last.p, Val(startPoint))
                b == Val(emitted[1])
            IN  /\ b = swapped
                /\ b.west < b.east /\ b.south < b.north
                /\ areaKm2 = Some(Area(swapped))
                /\ areaKm2 = Some(Area(b))
    /\ (/\ last.op = "pointerUp" /\ last.from = "Drawing"
        /\ startPoint # NULL /\ ~Degenerate(Val(startPoint), last.p))
         => EmittedBounds(emitted)

\* C17 witness: a committed draw whose start point is the north-west corner
\* and whose end point is the south-east corner.
C17_Witness ==
    /\ last.op = "pointerUp" /\ EmittedBounds(emitted) /\ startPoint # NULL
    /\ Val(startPoint).lat > last.p.lat /\ Val(startPoint).lng < last.p.lng
    /\ Val(emitted[1]).south = last.p.lat /\ Val(emitted[1]).west = Val(startPoint).lng
    /\ areaKm2 # NULL

\* C18: whenever the loading flag is set, at least one issued request is
\* still unresolved.
C18_LoadingHasRequest == isLoading => inFlight # {}

\* C18 witness: AOISelected(null) was handled while a request was in flight:
\* the loading flag is still set and the request still unresolved.
C18_Witness ==
    /\ EmittedNull(emitted) /\ isLoading
    /\ inFlight # {} /\ inFlight \subseteq 1..issued

\* ------------------------------------------------- SpecLive
\* The application under the hypothesis of C19: while requests are
\* outstanding a response is handled (once the event loop is free, which it
\* is again and again), so that every issued request is answered, and a
\* pending render is carried out. At most MaxRequests selections occur.
SpecLive ==
    /\ Init /\ [][Next]_vars
    /\ WF_vars(Render)
    /\ SF_vars(\E id \in 1..MaxRequests, o \in Outcomes : Resolve(id, o))

\* C19: if every issued request eventually resolves and only finitely many
\* AOISelected(bounds) events occur, the analysis state eventually leaves
\* Loading and stays out of it.
C19_LoadingEnds == <>[](~isLoading)

\* C19 witness: the last outstanding request failed and the loading flag is
\* reset with no request left.
C19_Witness ==
    /\ last.op = "resolve" /\ last.outcome.kind # "ok"
    /\ issued >= 1 /\ inFlight = {} /\ ~isLoading

\* C20: in the selector's event stream every AOISelected(bounds) directly
\* follows the AOISelected(null) of a pointerDown: two AOISelected(bounds) are
\* never emitted back to back, at most one per pointerDown, and a handler
\* emits at most one event.
C20_Step ==
    /\ Len(emitted') <= 1
    /\ EmittedBounds(emitted')
         => /\ lastEvent = "nullDown"
            /\ lastEvent' = "bounds"
            /\ last'.op = "pointerUp" /\ last'.from = "Drawing"

C20_BoundsFollowPointerDown == [][C20_Step]_vars

\* C20 witness: a second pointerUp on a committed AOI, at a point that spans a
\* rectangle with the start point, emitted nothing.
C20_Witness ==
    /\ last.op = "pointerUp" /\ last.from = "Drawn"
    /\ startPoint # NULL /\ ~Degenerate(Val(startPoint), last.p)
    /\ emitted = <<>> /\ lastEvent = "bounds"

====
